---- MODULE Spec2Model ----
(***************************************************************************)
(* useSubscription (packages/observable-hooks/src/use-subscription.ts):    *)
(* one hook instance inside a React component, the observables it is       *)
(* given, and the host's render / commit / passive-effect / unmount        *)
(* lifecycle.  JavaScript values are modelled as strings: "null" and       *)
(* "undefined" are the two falsy values that occur, everything else is     *)
(* truthy.                                                                 *)
(***************************************************************************)
EXTENDS Naturals, Sequences, FiniteSets

\* ---------------------------------------------------------------- bounds
\* number of subscriptions one instance may open in a behaviour
MaxSubs == 3

\* ---------------------------------------------------------------- inputs
\* observable references (compared by identity)
Sources == {"A", "B"}
\* the optional callbacks of each position; "null" is the placeholder
NextFns == {"null", "n1", "n2"}
ErrorFns == {"null", "e1", "e2"}
CompleteFns == {"null", "c1"}
\* values a source can emit with next
Values == {"v1", "v2"}
\* values a source can fail with; an observable may fail with any value,
\* `undefined` included (subscriber.error() without an argument)
ErrorValues == {"Err1", "Err2", "undefined"}

\* JavaScript truthiness as used by `if (x)` on lines 74, 83, 95 and 108
Truthy(x) == x \notin {"null", "undefined"}

\* the argument tuple before the first render
NoArgs == [src |-> "none", next |-> "null", error |-> "null", complete |-> "null"]

VARIABLES
  life,            \* "initial" (never committed) | "mounted" | "unmounted"
  args,            \* the arguments of the most recent call of the hook
  argsRef,         \* argsRef.current
  rendered,        \* args[0] of the completed render awaiting commit, or "none"
  deps,            \* the dependency [args[0]] of the last committed render
  effectPending,   \* the commit scheduled the effect and it has not run yet
  subs,            \* every subscription the instance opened: [src, closed]
  subscriptionRef, \* subscriptionRef.current: index into subs, 0 = undefined
  errorRef,        \* errorRef.current
  forced,          \* forceUpdate() was called and no render ran since
  openedWith,      \* history: argsRef.current[1] when the last subscription was opened
  replaced,        \* history: the latest render changed the source and all
                   \* three callbacks of the tuple it replaced
  terminated,      \* per source: how it ended, [kind, val], or Live
  called,          \* the caller's callbacks invoked by the last step
  thrown,          \* what the last step threw if it was a render, or "none"
  lastOp           \* the last step taken: [op, src, val]

vars == <<life, args, argsRef, rendered, deps, effectPending, subs, subscriptionRef,
          errorRef, forced, openedWith, replaced, terminated, called, thrown, lastOp>>

Op(o, s, v) == [op |-> o, src |-> s, val |-> v]

\* a source that has neither errored nor completed
Live == [kind |-> "live", val |-> "none"]

Init ==
  /\ life = "initial"
  /\ args = NoArgs
  /\ argsRef = NoArgs
  /\ rendered = "none"
  /\ deps = "none"
  /\ effectPending = FALSE
  /\ subs = <<>>
  /\ subscriptionRef = 0
  /\ errorRef = "undefined"
  /\ forced = FALSE
  /\ openedWith = "null"
  /\ replaced = FALSE
  /\ terminated = [s \in Sources |-> Live]
  /\ called = <<>>
  /\ thrown = "none"
  /\ lastOp = Op("init", "none", "none")

\* ------------------------------------------------------------- helpers
\* the subscriptions of this instance that are open
OpenSubs == {i \in 1..Len(subs) : ~subs[i].closed}
\* ... and those of them that are subscribed to source s
OpenOn(s) == {i \in OpenSubs : subs[i].src = s}

\* mutant: unsubscribe() that flips the state of the subscription, so that
\* a second release reopens it
UnsubscribeToggles(ss, i) ==
  IF i \in 1..Len(ss) THEN [ss EXCEPT ![i].closed = ~ss[i].closed] ELSE ss

\* mutant: unsubscribe() that releases nothing
UnsubscribeNothing(ss, i) == ss

\* subscription.unsubscribe(): idempotent
Unsubscribe(ss, i) ==
  IF i \in 1..Len(ss) THEN [ss EXCEPT ![i].closed = TRUE] ELSE ss

\* a source that errors or completes closes its subscribers
CloseAllOn(ss, s) ==
  [i \in 1..Len(ss) |-> IF ss[i].src = s THEN [ss[i] EXCEPT !.closed = TRUE] ELSE ss[i]]

Call(slot, fn, arg) == [slot |-> slot, fn |-> fn, arg |-> arg]

\* the outcome of one handler run
Outcome(calls, err, frc) == [calls |-> calls, errorRef |-> err, forced |-> frc]
Dropped(err, frc) == Outcome(<<>>, err, frc)

\* mutant: the handlers never treat an emission as stale
StaleNever(input, ref) == FALSE

\* `input$ !== argsRef.current[0]`
Stale(input, ref) == input # ref.src

\* mutant: next dispatches to the callback captured when the subscription
\* was opened instead of reading argsRef.current[1]
nextHandlerCaptured(input, value, err, frc) ==
  IF Stale(input, argsRef) THEN Dropped(err, frc)
  ELSE IF Truthy(openedWith)
       THEN Outcome(<<Call("next", openedWith, value)>>, err, frc)
       ELSE Dropped(err, frc)

\* next: value => { ... }
nextHandler(input, value, err, frc) ==
  IF Stale(input, argsRef) THEN Dropped(err, frc)
  ELSE IF Truthy(argsRef.next)
       THEN Outcome(<<Call("next", argsRef.next, value)>>, err, frc)
       ELSE Dropped(err, frc)

\* mutant: the error handler without the staleness test
errorHandlerIgnoresStale(input, error, err, frc) ==
  IF Truthy(argsRef.error)
  THEN Outcome(<<Call("error", argsRef.error, error)>>, "null", frc)
  ELSE Outcome(<<>>, error, TRUE)

\* mutant: the error is stored and a re-render forced although an error
\* callback handled it
errorHandlerAlwaysCaptures(input, error, err, frc) ==
  IF Stale(input, argsRef) THEN Dropped(err, frc)
  ELSE IF Truthy(argsRef.error)
       THEN Outcome(<<Call("error", argsRef.error, error)>>, error, TRUE)
       ELSE Outcome(<<>>, error, TRUE)

\* error: error => { ... }
errorHandler(input, error, err, frc) ==
  IF Stale(input, argsRef) THEN Dropped(err, frc)
  ELSE IF Truthy(argsRef.error)
       THEN Outcome(<<Call("error", argsRef.error, error)>>, "null", frc)
       ELSE Outcome(<<>>, error, TRUE)

\* mutant: completion forces a re-render the way an unhandled error does
completeHandlerForces(input, err, frc) ==
  IF Stale(input, argsRef) THEN Dropped(err, frc)
  ELSE IF Truthy(argsRef.complete)
       THEN Outcome(<<Call("complete", argsRef.complete, "none")>>, err, TRUE)
       ELSE Outcome(<<>>, err, TRUE)

\* complete: () => { ... }
completeHandler(input, err, frc) ==
  IF Stale(input, argsRef) THEN Dropped(err, frc)
  ELSE IF Truthy(argsRef.complete)
       THEN Outcome(<<Call("complete", argsRef.complete, "none")>>, err, frc)
       ELSE Dropped(err, frc)

\* input$.subscribe(...) on a source that has already ended: the source
\* signals its end to the new subscriber synchronously, inside subscribe
OnSubscribe(input, err, frc) ==
  IF terminated[input].kind = "error" THEN errorHandler(input, terminated[input].val, err, frc)
  ELSE IF terminated[input].kind = "complete" THEN completeHandler(input, err, frc)
  ELSE Dropped(err, frc)

\* the handler runs once per open subscription of the instance on the source
RECURSIVE Times(_, _)
Times(calls, n) == IF n = 0 THEN <<>> ELSE calls \o Times(calls, n - 1)

Deliver(s, out) ==
  IF OpenOn(s) = {}
  THEN /\ called' = <<>>
       /\ UNCHANGED <<errorRef, forced>>
  ELSE /\ called' = Times(out.calls, Cardinality(OpenOn(s)))
       /\ errorRef' = out.errorRef
       /\ forced' = out.forced

\* ------------------------------------------------------------- actions
\* mutant: the pending error is thrown before argsRef.current is assigned
LatestArgsUnlessThrowing(old, new) == IF Truthy(errorRef) THEN old ELSE new

\* mutant: a render that changes the source keeps the callbacks of the
\* tuple it replaces
LatestArgsKeepsCallbacks(old, new) ==
  IF old.src \notin {"none", new.src} THEN [old EXCEPT !.src = new.src] ELSE new

\* argsRef.current = args
LatestArgs(old, new) == new

\* the render-time check of errorRef.current
RenderThrows(err) == IF Truthy(err) THEN err ELSE "none"

\* mutant: the render pass itself subscribes to the source
RenderSubscribes(src, n, e, c) ==
  /\ life # "unmounted"
  /\ ~effectPending
  /\ Len(subs) < MaxSubs
  /\ args' = [src |-> src, next |-> n, error |-> e, complete |-> c]
  /\ argsRef' = LatestArgs(argsRef, args')
  /\ replaced' = FALSE
  /\ forced' = FALSE
  /\ thrown' = RenderThrows(errorRef)
  /\ rendered' = IF thrown' = "none" THEN src ELSE "none"
  /\ subs' = Append(subs, [src |-> src, closed |-> terminated[src] # Live])
  /\ subscriptionRef' = Len(subs')
  /\ called' = <<>>
  /\ lastOp' = Op("render", src, "none")
  /\ UNCHANGED <<life, deps, effectPending, errorRef, openedWith, terminated>>

\* one render pass of the component with the given arguments
Render(src, n, e, c) ==
  /\ life # "unmounted"
  /\ ~effectPending
  /\ args' = [src |-> src, next |-> n, error |-> e, complete |-> c]
  /\ argsRef' = LatestArgs(argsRef, args')
  /\ replaced' = /\ argsRef.src \notin {"none", src}
                  /\ argsRef.next # n
                  /\ argsRef.error # e
                  /\ argsRef.complete # c
  /\ forced' = FALSE
  /\ thrown' = RenderThrows(errorRef)
  /\ rendered' = IF thrown' = "none" THEN src ELSE "none"
  /\ called' = <<>>
  /\ lastOp' = Op("render", src, "none")
  /\ UNCHANGED <<life, deps, effectPending, subs, subscriptionRef, errorRef, openedWith, terminated>>

\* mutant: an effect without a dependency list runs after every commit
DepsAlwaysChanged(prev, next) == TRUE

\* the dependency comparison of useEffect(..., [args[0]])
DepsChanged(prev, next) == prev # next

\* the host commits the completed render
Commit ==
  /\ life # "unmounted"
  /\ ~effectPending
  /\ rendered # "none"
  /\ effectPending' = (life = "initial" \/ DepsChanged(deps, rendered))
  /\ effectPending' => Len(subs) < MaxSubs
  /\ deps' = rendered
  /\ rendered' = "none"
  /\ life' = "mounted"
  /\ called' = <<>>
  /\ thrown' = "none"
  /\ lastOp' = Op("commit", rendered, "none")
  /\ UNCHANGED <<args, argsRef, subs, subscriptionRef, errorRef, forced, openedWith, replaced, terminated>>

\* mutant: an effect that returns no cleanup
CleanupNothing(ss) == ss

\* return () => { subscription.unsubscribe() }: the subscription of the
\* previous run of the effect
Cleanup(ss) == Unsubscribe(ss, Len(ss))

\* mutant: the effect keeps subscribing to the source it captured at mount
EffectInputAtMount(ref, ss) == IF ss = <<>> THEN ref.src ELSE ss[1].src

\* const input$ = argsRef.current[0]
EffectInput(ref, ss) == ref.src

\* mutant: the ref is assigned by the first run of the effect only
AssignRefOnce(old, sub) == IF old = 0 THEN sub ELSE old

\* subscriptionRef.current = subscription
AssignRef(old, sub) == sub

\* the host runs the scheduled effect: the previous cleanup, then the body
FlushEffect ==
  /\ effectPending
  /\ effectPending' = FALSE
  /\ LET input == EffectInput(argsRef, subs)
         out == OnSubscribe(input, "null", forced)
     IN  /\ subs' = Append(Cleanup(subs), [src |-> input, closed |-> terminated[input] # Live])
         /\ errorRef' = out.errorRef
         /\ forced' = out.forced
         /\ called' = out.calls
         /\ lastOp' = Op("effect", input, "none")
  /\ subscriptionRef' = AssignRef(subscriptionRef, Len(subs'))
  /\ thrown' = "none"
  /\ openedWith' = argsRef.next
  /\ UNCHANGED <<life, args, argsRef, rendered, deps, replaced, terminated>>

\* permanent removal of the component
Unmount ==
  /\ life = "mounted"
  /\ ~effectPending
  /\ life' = "unmounted"
  /\ subs' = Cleanup(subs)
  /\ rendered' = "none"
  /\ called' = <<>>
  /\ thrown' = "none"
  /\ lastOp' = Op("unmount", "none", "none")
  /\ UNCHANGED <<args, argsRef, deps, effectPending, subscriptionRef, errorRef, forced, openedWith, replaced, terminated>>

\* the caller unsubscribes through the returned ref
ManualUnsubscribe ==
  /\ subscriptionRef # 0
  /\ subs' = Unsubscribe(subs, subscriptionRef)
  /\ called' = <<>>
  /\ thrown' = "none"
  /\ lastOp' = Op("unsubscribe", subs[subscriptionRef].src, "none")
  /\ UNCHANGED <<life, args, argsRef, rendered, deps, effectPending, subscriptionRef,
                 errorRef, forced, openedWith, replaced, terminated>>

\* source s emits a value
EmitNext(s, v) ==
  /\ terminated[s] = Live
  /\ Deliver(s, nextHandler(s, v, errorRef, forced))
  /\ thrown' = "none"
  /\ lastOp' = Op("next", s, v)
  /\ UNCHANGED <<life, args, argsRef, rendered, deps, effectPending, subs, subscriptionRef, openedWith, replaced, terminated>>

\* source s fails with e
EmitError(s, e) ==
  /\ terminated[s] = Live
  /\ Deliver(s, errorHandler(s, e, errorRef, forced))
  /\ terminated' = [terminated EXCEPT ![s] = [kind |-> "error", val |-> e]]
  /\ subs' = CloseAllOn(subs, s)
  /\ thrown' = "none"
  /\ lastOp' = Op("error", s, e)
  /\ UNCHANGED <<life, args, argsRef, rendered, deps, effectPending, subscriptionRef, openedWith, replaced>>

\* source s completes
EmitComplete(s) ==
  /\ terminated[s] = Live
  /\ Deliver(s, completeHandler(s, errorRef, forced))
  /\ terminated' = [terminated EXCEPT ![s] = [kind |-> "complete", val |-> "none"]]
  /\ subs' = CloseAllOn(subs, s)
  /\ thrown' = "none"
  /\ lastOp' = Op("complete", s, "none")
  /\ UNCHANGED <<life, args, argsRef, rendered, deps, effectPending, subscriptionRef, openedWith, replaced>>

Next ==
  \/ \E s \in Sources, n \in NextFns, e \in ErrorFns, c \in CompleteFns : Render(s, n, e, c)
  \/ Commit
  \/ FlushEffect
  \/ Unmount
  \/ ManualUnsubscribe
  \/ \E s \in Sources, v \in Values : EmitNext(s, v)
  \/ \E s \in Sources, e \in ErrorValues : EmitError(s, e)
  \/ \E s \in Sources : EmitComplete(s)

Spec == Init /\ [][Next]_vars

\* ---------------------------------------------------------------- claims
EmitOps == {"next", "error", "complete"}

\* source s is bound: the instance holds an open subscription to it and the
\* latest render still names it
Bound(s) == OpenOn(s) # {} /\ argsRef.src = s

\* C1: at every instant at most one subscription of the instance is open,
\* and every subscription but the most recently opened one is closed (the
\* previous one is released before its replacement is opened).
C1_AtMostOneOpen ==
  /\ Cardinality(OpenSubs) <= 1
  /\ \A i \in 1..Len(subs) : i < Len(subs) => subs[i].closed

\* a swap happened: the replacement is open and the previous one is closed
C1_Witness ==
  /\ lastOp.op = "effect"
  /\ Len(subs) >= 2
  /\ subs[Len(subs) - 1].src # subs[Len(subs)].src
  /\ ~subs[Len(subs)].closed

\* C2: once a commit has swapped the bound source from A to B, no emission
\* of A invokes a callback, while a value emitted by B is delivered to the
\* next callback.
C2_NoStaleDelivery ==
  [][/\ (/\ lastOp'.op \in EmitOps
         /\ deps # "none"
         /\ lastOp'.src # deps
         /\ \E i \in 1..Len(subs) : subs[i].src = lastOp'.src)
        => called' = <<>>
     /\ (/\ lastOp'.op = "next"
         /\ lastOp'.src = deps
         /\ Len(subs) >= 2
         /\ Bound(deps)
         /\ Truthy(argsRef.next))
        => called' = <<Call("next", argsRef.next, lastOp'.val)>>]_vars

\* A emitted a value after the commit that replaced it, while its
\* subscription was still open, and no callback ran
C2_Witness ==
  /\ lastOp.op = "next"
  /\ effectPending
  /\ lastOp.src # deps
  /\ OpenOn(lastOp.src) # {}
  /\ Truthy(argsRef.next)
  /\ called = <<>>

\* C3: every value emitted by the source of the open subscription while a
\* next callback is supplied is delivered to that callback exactly once, also
\* between a render with a different source and its commit.
C3_NoValueMissed ==
  [][(/\ lastOp'.op = "next"
      /\ OpenOn(lastOp'.src) # {}
      /\ Truthy(argsRef.next))
     => called' = <<Call("next", argsRef.next, lastOp'.val)>>]_vars

\* C4: a commit schedules the subscribing effect exactly when it is the first
\* commit or its source differs from the previously committed one; a
\* subscription is opened only by running that effect; renders and commits
\* themselves never touch a subscription nor invoke a callback.
C4_ResubscribeOnlyOnSourceChange ==
  [][/\ lastOp'.op = "commit" =>
          (effectPending' <=> (deps = "none" \/ rendered # deps))
     /\ (Len(subs') > Len(subs)) <=> (effectPending /\ ~effectPending')
     /\ lastOp'.op \in {"render", "commit"} =>
          /\ subs' = subs
          /\ subscriptionRef' = subscriptionRef
          /\ called' = <<>>]_vars

\* a render that changed only the next callback was committed and the
\* subscription opened earlier is still the open one
C4_Witness ==
  /\ lastOp.op = "commit"
  /\ ~effectPending
  /\ Len(subs) = 1
  /\ OpenSubs = {1}
  /\ Truthy(openedWith)
  /\ Truthy(argsRef.next)
  /\ argsRef.next # openedWith

\* the callback of the latest render for the slot of an emission
SlotFn(slot) ==
  IF slot = "next" THEN argsRef.next
  ELSE IF slot = "error" THEN argsRef.error
  ELSE argsRef.complete

\* C5: an emission that is not stale is dispatched to the callback that the
\* most recent render supplied for its slot, and no emission ever invokes
\* any other callback.
C5_CallbackFreshness ==
  [][lastOp'.op \in EmitOps =>
       /\ \A k \in 1..Len(called') :
            /\ called'[k].slot = lastOp'.op
            /\ called'[k].fn = SlotFn(lastOp'.op)
       /\ (Bound(lastOp'.src) /\ Truthy(SlotFn(lastOp'.op)))
            => called' = <<Call(lastOp'.op, SlotFn(lastOp'.op), lastOp'.val)>>]_vars

\* a render replaced the next callback without resubscription and the next
\* value went to the new callback
C5_Witness ==
  /\ lastOp.op = "next"
  /\ Len(subs) = 1
  /\ Truthy(openedWith)
  /\ argsRef.next # openedWith
  /\ called = <<Call("next", argsRef.next, lastOp.val)>>

\* C6: when the bound source errors with any value e while no error callback
\* is current, e is stored, a re-render is forced, and the next render pass
\* throws exactly e.
C6_ErrorEscalation ==
  [][/\ (/\ lastOp'.op = "error"
         /\ Bound(lastOp'.src)
         /\ ~Truthy(argsRef.error))
        => (errorRef' = lastOp'.val /\ forced')
     /\ (/\ lastOp.op = "error"
         /\ forced
         /\ errorRef = lastOp.val
         /\ lastOp'.op = "render")
        => thrown' = lastOp.val]_vars

\* C7: when the bound source errors while an error callback is current, that
\* callback is invoked exactly once with the error value, nothing is stored,
\* no re-render is forced and the following render pass does not throw; the
\* slot is only ever filled by an error that no callback received.
C7_HandledErrorNotEscalated ==
  [][/\ (/\ lastOp'.op = "error"
         /\ Bound(lastOp'.src)
         /\ Truthy(argsRef.error))
        => /\ called' = <<Call("error", argsRef.error, lastOp'.val)>>
           /\ ~Truthy(errorRef')
           /\ forced' = forced
     /\ (lastOp.op = "error" /\ called # <<>> /\ lastOp'.op = "render")
        => thrown' = "none"
     /\ (~Truthy(errorRef) /\ Truthy(errorRef'))
        => (lastOp'.op \in {"error", "effect"} /\ called' = <<>>)]_vars

\* an error callback received the error of the bound source
C7_Witness ==
  /\ lastOp.op = "error"
  /\ called = <<Call("error", argsRef.error, lastOp.val)>>
  /\ Truthy(lastOp.val)
  /\ ~Truthy(errorRef)
  /\ ~forced

\* C8: after an unhandled error of the committed source A was stored, a
\* render with a different source B does not throw it.
C8_RebindDoesNotRethrow ==
  [][(/\ Truthy(errorRef)
      /\ deps # "none"
      /\ terminated[deps] = [kind |-> "error", val |-> errorRef]
      /\ lastOp'.op = "render"
      /\ lastOp'.src # deps)
     => thrown' = "none"]_vars

\* an unhandled error is pending: the slot holds a value, or the last step
\* stored one
Captured ==
  \/ Truthy(errorRef)
  \/ (lastOp.op = "error" /\ forced /\ called = <<>> /\ errorRef = lastOp.val)

\* C9: once an unhandled error is stored, only the start of a new
\* subscription changes the slot, and every render pass throws the stored
\* value, whatever callbacks it supplies.
C9_PendingErrorPersists ==
  [][Captured =>
       /\ lastOp'.op # "effect" => errorRef' = errorRef
       /\ lastOp'.op = "render" => thrown' = errorRef]_vars

\* C10: after unmount no subscription is open, and no later step invokes a
\* callback, stores an error or forces a re-render.
C10_SilentAfterUnmount ==
  [][/\ life' = "unmounted" => OpenSubs' = {}
     /\ life = "unmounted" =>
          /\ called' = <<>>
          /\ forced' = forced
          /\ errorRef' = errorRef]_vars

\* the source the instance was subscribed to emitted after unmount
C10_Witness ==
  /\ life = "unmounted"
  /\ lastOp.op \in EmitOps
  /\ lastOp.src = argsRef.src
  /\ lastOp.src = deps
  /\ Truthy(SlotFn(lastOp.op))
  /\ called = <<>>

\* a step that changes nothing of the hook's state and invokes nothing
NoEffect ==
  /\ subs' = subs
  /\ subscriptionRef' = subscriptionRef
  /\ argsRef' = argsRef
  /\ errorRef' = errorRef
  /\ forced' = forced
  /\ called' = <<>>
  /\ thrown' = "none"

C12_RenderHasNoSubscriptionEffect ==
  [][/\ lastOp'.op = "render" =>
          /\ subs' = subs
          /\ subscriptionRef' = subscriptionRef
          /\ called' = <<>>
     /\ life' = "initial" =>
          /\ subs' = <<>>
          /\ subscriptionRef' = 0
          /\ called' = <<>>]_vars

\* before the first commit a render named a source that signals its
\* completion synchronously on subscribe, with a complete callback supplied
C12_Witness ==
  /\ life = "initial"
  /\ lastOp.op = "render"
  /\ rendered = argsRef.src
  /\ terminated[argsRef.src].kind = "complete"
  /\ Truthy(argsRef.complete)
  /\ subs = <<>>
  /\ called = <<>>

\* C13: the handle is empty until the first commit, always refers to the
\* most recently opened subscription, and once the effect of a commit has run
\* that subscription is the one to the committed source.
C13_HandleIsLatestSubscription ==
  /\ life = "initial" => subscriptionRef = 0
  /\ subscriptionRef = Len(subs)
  /\ (life # "initial" /\ ~effectPending) =>
       /\ subscriptionRef >= 1
       /\ subs[subscriptionRef].src = deps

\* after two swaps the handle refers to the third, open subscription
C13_Witness ==
  /\ ~effectPending
  /\ Len(subs) = 3
  /\ subscriptionRef = 3
  /\ ~subs[3].closed
  /\ subs[3].src = deps
  /\ subs[2].src # deps

ArgFn(slot) ==
  IF slot = "next" THEN args.next
  ELSE IF slot = "error" THEN args.error
  ELSE args.complete

\* what dispatching an emission to callback fn invokes
Dispatched(slot, fn, arg) == IF Truthy(fn) THEN <<Call(slot, fn, arg)>> ELSE <<>>

\* C15: after a render that changed the source together with all three
\* callbacks, every emission of the subscription to the new source is
\* dispatched to the callback that this render supplied for its slot, hence
\* never to one of the tuple it replaced.
C15_NewTupleAfterSwap ==
  [][/\ (lastOp'.op \in EmitOps /\ replaced /\ Bound(lastOp'.src))
          => called' = Dispatched(lastOp'.op, ArgFn(lastOp'.op), lastOp'.val)
     /\ (lastOp'.op = "effect" /\ replaced)
          => \A k \in 1..Len(called') : called'[k].fn = ArgFn(called'[k].slot)]_vars

\* the new source emitted a value after such a render was committed, and the
\* next callback of the new tuple received it
C15_Witness ==
  /\ lastOp.op = "next"
  /\ replaced
  /\ Len(subs) >= 2
  /\ lastOp.src = deps
  /\ called = <<Call("next", args.next, lastOp.val)>>

\* C16: a completion that is not stale invokes the current complete callback
\* exactly once without a value if one is supplied and nothing otherwise, and
\* leaves the pending error, the handle and the re-render request unchanged.
C16_CompletionFrame ==
  [][(lastOp'.op = "complete" /\ Bound(lastOp'.src)) =>
       /\ called' = Dispatched("complete", argsRef.complete, "none")
       /\ errorRef' = errorRef
       /\ subscriptionRef' = subscriptionRef
       /\ forced' = forced]_vars

\* the bound source completed and the complete callback ran once
C16_Witness ==
  /\ lastOp.op = "complete"
  /\ lastOp.src = deps
  /\ called = <<Call("complete", argsRef.complete, "none")>>
  /\ errorRef = "null"
  /\ ~forced

\* C17: an error of a source that the latest render no longer names stores
\* nothing, forces no re-render and invokes nothing; a value enters the slot
\* only through an error of the source the latest render names, and a render
\* pass throws nothing but the value in the slot.
C17_StaleErrorIgnored ==
  [][/\ (lastOp'.op = "error" /\ lastOp'.src # argsRef.src) =>
          /\ errorRef' = errorRef
          /\ forced' = forced
          /\ called' = <<>>
     /\ (errorRef' # errorRef /\ Truthy(errorRef')) =>
          /\ lastOp'.op \in {"error", "effect"}
          /\ lastOp'.src = argsRef.src
     /\ lastOp'.op = "render" => thrown' \in {"none", errorRef}]_vars

\* the committed source failed while the latest render named another source
\* and supplied no error callback: nothing was stored
C17_Witness ==
  /\ lastOp.op = "error"
  /\ Truthy(lastOp.val)
  /\ lastOp.src # argsRef.src
  /\ lastOp.src = deps
  /\ subs # <<>>
  /\ subs[Len(subs)].src = lastOp.src
  /\ ~Truthy(argsRef.error)
  /\ errorRef = "null"
  /\ ~forced

\* the slot holds an error only if the source of the most recently opened
\* subscription ended with exactly that error
PendingErrorFromLatest ==
  Truthy(errorRef) =>
    /\ subs # <<>>
    /\ terminated[subs[Len(subs)].src] = [kind |-> "error", val |-> errorRef]

\* C18: a non-empty slot holds the error with which the source of the most
\* recently opened subscription ended; it is filled only by the dispatch of
\* an error while no error callback is current, never by a next or complete
\* emission, a render or a commit.
C18_PendingErrorOrigin ==
  [][/\ PendingErrorFromLatest'
     /\ (errorRef' # errorRef /\ Truthy(errorRef')) =>
          /\ lastOp'.op \in {"error", "effect"}
          /\ ~Truthy(argsRef.error)
          /\ called' = <<>>
          /\ errorRef' = terminated'[lastOp'.src].val
     /\ lastOp'.op \in {"next", "complete", "render", "commit"} =>
          errorRef' = errorRef]_vars

\* a resubscription to a source that had already failed stored its error
C18_Witness ==
  /\ Truthy(errorRef)
  /\ lastOp.op = "effect"
  /\ Len(subs) >= 2
  /\ ~Truthy(argsRef.error)
  /\ forced

\* C19: every render pass, also one that throws, leaves its own tuple in
\* argsRef.current, and only a render pass throws; a callback invoked by an
\* emission is the one the latest call supplied for the source it names; a
\* re-render is forced only by the dispatch of an error of the current source
\* while no error callback is current.
C19_FailingRenderUpdatesArgs ==
  [][/\ lastOp'.op = "render" => (argsRef' = args' /\ args'.src = lastOp'.src)
     /\ thrown' # "none" => (lastOp'.op = "render" /\ thrown' = errorRef)
     /\ (lastOp'.op \in EmitOps /\ called' # <<>>) =>
          /\ lastOp'.src = args.src
          /\ \A k \in 1..Len(called') : called'[k].fn = ArgFn(lastOp'.op)
     /\ (forced' /\ ~forced) =>
          /\ lastOp'.op \in {"error", "effect"}
          /\ lastOp'.src = argsRef.src
          /\ ~Truthy(argsRef.error)
          /\ called' = <<>>]_vars

\* a render that named another source and supplied an error callback threw
\* the pending error, and argsRef.current holds its tuple
C19_Witness ==
  /\ lastOp.op = "render"
  /\ thrown # "none"
  /\ argsRef = args
  /\ argsRef.src # deps
  /\ Truthy(argsRef.error)
  /\ ~forced
====
